---- MODULE Spec2Model ----
(***************************************************************************)
(* Model of nb/cli/cli.py: the project-root finder (an upward directory    *)
(* walk), the salted password encoder, and main(), which assembles the     *)
(* argument list of the delegated jupyter server.                          *)
(*                                                                         *)
(* Representation.                                                         *)
(*   A path is the sequence of its components below "/": <<>> is "/",      *)
(*   <<"h","p">> is /h/p.  Paths here are absolute and symlink-free, which *)
(*   is what Path.resolve() yields for the current directory; the home     *)
(*   directory is taken to be symlink-free too.  Every directory on the    *)
(*   way up can be listed (an unreadable one makes iterdir() raise).       *)
(*   A text (a Python str) is a sequence of chunks; a chunk is a run of    *)
(*   characters held in a TLA+ string.  The empty str is <<>>.  A ":" that *)
(*   the program writes is always a chunk of its own.                      *)
(*   An optional value (None or a value) is a set with at most one         *)
(*   element: {} is None.                                                  *)
(***************************************************************************)
EXTENDS Integers, Sequences, FiniteSets, TLC

VARIABLES
    start,          \* Path(directory).resolve(): the directory the walk starts in
    home,           \* Path('~').expanduser()
    entries,        \* the marker-named entries of every directory on the chain start .. "/"
    find_root,      \* find_project_root: the search boundary (local `root`)
    d,              \* find_project_root_recurse: the directory of the current call
    frames,         \* number of find_project_root_recurse calls on the stack
    visited,        \* directories handed to find_project_root_recurse so far
    listed,         \* directories whose entries were enumerated (d.iterdir())
    root,           \* value returned by find_project_root (optional path)
    plain_password, \* make_password: its argument (sequence of code points)
    password,       \* make_password: its return value (text)
    cmdline,        \* the recognised flags of the command line
    args,           \* argparse namespace
    importable,     \* which optional packages can be imported
    env_data_dir,   \* os.environ['JUPYTER_DATA_DIR'] (optional path)
    kernel_name,    \* main: kernel_name
    kernel_path,    \* main: kernel_path
    kernels,        \* content of <data dir>/kernels on disk: kernel name -> spec state
    rmtree_arg,     \* the path main handed to rmtree (optional path)
    wrote_spec,     \* the path handed to write_kernel_spec (optional path)
    sys_argv,       \* sys.argv
    stderr,         \* messages printed with print_error
    invoked,        \* the server entry point that was called
    handed,         \* the argument list the entry point received
    exit_code,      \* process exit status once main has ended
    pc              \* position in the program

walkVars == <<start, home, entries, find_root, d, frames, visited, listed, root>>
pwVars   == <<plain_password, password>>
mainVars == <<cmdline, args, importable, env_data_dir, kernel_name, kernel_path, kernels,
              rmtree_arg, wrote_spec, sys_argv, stderr, invoked, handed, exit_code>>
vars     == <<walkVars, pwVars, mainVars, pc>>

(***************************************************************************)
(* Bounds of the model.                                                    *)
(***************************************************************************)
MaxDepth       == 3   \* deepest starting directory when find_project_root is run alone
MaxHomeDepth   == 1   \* deepest home directory
MaxMarkers     == 2   \* marker-named entries on the chain when run alone
MainMaxDepth   == 2   \* deepest current directory of a run of main
MainMaxMarkers == 1   \* marker-named entries on the chain in a run of main
MaxPlainLen    == 2   \* longest plaintext handed to make_password alone

Names == {"h", "p"}          \* directory names
Kinds == {"absent", "file", "dir"}

(***************************************************************************)
(* pathlib                                                                 *)
(***************************************************************************)
PathsUpTo(n) == UNION {[1..k -> Names] : k \in 0..n}

\* PurePath.parent: the parent of "/" is "/"
Parent(p) == IF p = <<>> THEN <<>> ELSE SubSeq(p, 1, Len(p) - 1)

\* PurePath.name: the final component, '' for "/"
Name(p) == IF p = <<>> THEN "" ELSE p[Len(p)]

\* p / name: joining with '' leaves the path as it was
Join(p, name) == IF name = "" THEN p ELSE Append(p, name)

\* p.relative_to(q) succeeds (does not raise ValueError)
IsRelativeTo(p, q) == Len(q) <= Len(p) /\ SubSeq(p, 1, Len(q)) = q

\* p.relative_to(q), when it succeeds: the components of p below q
RelativeTo(p, q) == SubSeq(p, Len(q) + 1, Len(p))

\* variant: the comparison never succeeds
IsDot_never(rel) == FALSE

\* str(rel) == '.': the relative path has no component
IsDot(rel) == rel = <<>>

\* the directories from p up to "/"
Chain(p) == {SubSeq(p, 1, k) : k \in 0..Len(p)}

(***************************************************************************)
(* ROOT_SPECS and its classifiers                                          *)
(***************************************************************************)
\* variant: returns the entry itself, not its parent
is_project_root_dir_self(dir, name, kind) ==
    IF kind = "dir" THEN {Join(dir, name)} ELSE {}

\* x.parent if x.is_dir() else None, for the entry x of directory dir
is_project_root_dir(dir, name, kind) ==
    IF kind = "dir" THEN {Parent(Join(dir, name))} ELSE {}

\* variant: x.exists() in place of x.is_file()
is_project_root_file_exists(dir, name, kind) ==
    IF kind # "absent" THEN {Parent(Join(dir, name))} ELSE {}

\* x.parent if x.is_file() else None
is_project_root_file(dir, name, kind) ==
    IF kind = "file" THEN {Parent(Join(dir, name))} ELSE {}

MarkerNames == {".git", "pyproject.toml"}

\* ROOT_SPECS[name](item)
ROOT_SPECS(dir, name, kind) ==
    IF name = ".git" THEN is_project_root_dir(dir, name, kind)
    ELSE is_project_root_file(dir, name, kind)

\* the entries d.iterdir() yields whose name is a key of ROOT_SPECS
MarkerItems(dir) == {n \in MarkerNames : entries[dir][n] # "absent"}

\* what the for loop of find_project_root_recurse can return for directory
\* dir: the truthy `found` of some item (the listing order is unspecified)
LoopFound(dir) ==
    UNION {ROOT_SPECS(dir, n, entries[dir][n]) : n \in MarkerItems(dir)}

(***************************************************************************)
(* find_project_root                                                       *)
(***************************************************************************)
\* variant: the home directory is the boundary whatever the start
SearchBoundary_home(s, h) == h

\* the boundary: home when the start is under home, else "/"
SearchBoundary(s, h) == IF IsRelativeTo(s, h) THEN h ELSE <<>>

\* find_project_root, lines 64-70, up to the first call of the recursion
FindProjectRoot ==
    /\ pc = "find_project_root"
    /\ find_root' = SearchBoundary(start, home)
    /\ d' = start
    /\ frames' = 1
    /\ visited' = {start}
    /\ pc' = "recurse"
    /\ UNCHANGED <<start, home, entries, listed, root, pwVars, mainVars>>

\* one call of find_project_root_recurse(d, find_root)
find_project_root_recurse ==
    /\ pc = "recurse"
    /\ IF ~IsRelativeTo(d, find_root)
       THEN \* ValueError: caught by the calling frame, uncaught in the first
            /\ pc' = IF frames > 1 THEN "returned" ELSE "ValueError"
            /\ root' = {}
            /\ UNCHANGED <<d, frames, visited, listed>>
       ELSE IF IsDot(RelativeTo(d, find_root))
       THEN /\ pc' = "returned"
            /\ root' = {}
            /\ UNCHANGED <<d, frames, visited, listed>>
       ELSE IF LoopFound(d) # {}
       THEN /\ pc' = "returned"
            /\ root' \in {{f} : f \in LoopFound(d)}
            /\ listed' = listed \cup {d}
            /\ UNCHANGED <<d, frames, visited>>
       ELSE /\ pc' = "recurse"
            /\ d' = Parent(d)
            /\ frames' = frames + 1
            /\ visited' = visited \cup {Parent(d)}
            /\ listed' = listed \cup {d}
            /\ UNCHANGED root
    /\ UNCHANGED <<start, home, entries, find_root, pwVars, mainVars>>

(***************************************************************************)
(* Directory trees                                                         *)
(***************************************************************************)
Listings == [MarkerNames -> Kinds]

MarkerCount(t) ==
    Cardinality({<<p, n>> \in (DOMAIN t) \X MarkerNames : t[p][n] # "absent"})

Trees(s, maxMarkers) ==
    {t \in [Chain(s) -> Listings] : MarkerCount(t) <= maxMarkers}

NoArgs == [ip |-> {}, only_update_kernel |-> FALSE, no_password |-> FALSE,
           notebook |-> FALSE, password |-> {}]

IdleMain ==
    /\ cmdline = NoArgs
    /\ args = NoArgs
    /\ importable = [ipykernel |-> TRUE, jupyterlab |-> TRUE, jupyter_core |-> TRUE]
    /\ env_data_dir = {}
    /\ kernel_name = ""
    /\ kernel_path = {}
    /\ kernels = [n \in {} |-> "absent"]
    /\ rmtree_arg = {}
    /\ wrote_spec = {}
    /\ sys_argv = <<>>
    /\ stderr = <<>>
    /\ invoked = "none"
    /\ handed = <<>>
    /\ exit_code = -1

IdleWalk(s, h) ==
    /\ start = s
    /\ home = h
    /\ find_root = <<>>
    /\ d = s
    /\ frames = 0
    /\ visited = {}
    /\ listed = {}
    /\ root = {}

IdlePw ==
    /\ plain_password = <<>>
    /\ password = <<>>

\* find_project_root called on its own
InitRoot ==
    /\ \E s \in PathsUpTo(MaxDepth), h \in PathsUpTo(MaxHomeDepth) :
          /\ IdleWalk(s, h)
          /\ entries \in Trees(s, MaxMarkers)
    /\ IdlePw
    /\ IdleMain
    /\ pc = "find_project_root"

NextRoot == FindProjectRoot \/ find_project_root_recurse

SpecRoot == InitRoot /\ [][NextRoot]_vars

(***************************************************************************)
(* make_password                                                           *)
(***************************************************************************)
salt_len == 12

HexDigits == <<"0", "1", "2", "3", "4", "5", "6", "7",
               "8", "9", "a", "b", "c", "d", "e", "f">>

\* format(n, 'x'): lowercase hex, no leading zeros, at least one digit
RECURSIVE Hex(_)
Hex(n) == IF n < 16 THEN <<HexDigits[n + 1]>>
          ELSE Hex(n \div 16) \o <<HexDigits[(n % 16) + 1]>>

\* zero fill on the left up to a minimum width; longer texts are kept whole
ZeroFill(s, width) ==
    IF Len(s) >= width THEN s ELSE [i \in 1..(width - Len(s)) |-> "0"] \o s

\* A 48-bit integer is held as two 24-bit limbs <<hi, lo>>: hi * 2^24 + lo.
Limb == 2^24

\* format(hi * 2^24 + lo, 'x')
Hex48(bits) ==
    IF bits[1] = 0 THEN Hex(bits[2])
    ELSE Hex(bits[1]) \o ZeroFill(Hex(bits[2]), 6)

\* variant: f"{bits:x}", no zero fill
FormatSalt_nofill(bits, width) == Hex48(bits)

\* f"{bits:0{width}x}"
FormatSalt(bits, width) == ZeroFill(Hex48(bits), width)

\* values random.getrandbits(4 * salt_len) can return
RandBits == {<<hi, lo>> : hi \in {0, 1, Limb - 1}, lo \in {0, 10, 2^20, Limb - 1}}

\* str.encode('utf-8') of one code point (a Unicode scalar value)
Utf8Char(c) ==
    IF c < 128 THEN <<c>>
    ELSE IF c < 2048 THEN <<192 + (c \div 64), 128 + (c % 64)>>
    ELSE IF c < 65536
         THEN <<224 + (c \div 4096), 128 + ((c \div 64) % 64), 128 + (c % 64)>>
    ELSE <<240 + (c \div 262144), 128 + ((c \div 4096) % 64),
           128 + ((c \div 64) % 64), 128 + (c % 64)>>

RECURSIVE encode_utf8(_)
encode_utf8(s) ==
    IF s = <<>> THEN <<>> ELSE Utf8Char(Head(s)) \o encode_utf8(Tail(s))

\* ord() of a hex digit
Ord(ch) ==
    LET i == CHOOSE k \in 1..16 : HexDigits[k] = ch
    IN  IF i <= 10 THEN 47 + i ELSE 86 + i

\* salt.encode('ascii')
encode_ascii(s) == [i \in 1..Len(s) |-> Ord(s[i])]

\* hashlib.new('sha1'), update(data), hexdigest(): the digest is kept
\* symbolic, one chunk of hex characters determined by the bytes hashed
hexdigest(data) == <<"sha1-hex" \o ToString(data)>>

\* sep.join(parts)
RECURSIVE StrJoin(_, _)
StrJoin(sep, parts) ==
    IF parts = <<>> THEN <<>>
    ELSE IF Len(parts) = 1 THEN parts[1]
    ELSE parts[1] \o sep \o StrJoin(sep, Tail(parts))

make_password(plain, bits) ==
    LET salt == FormatSalt(bits, salt_len)
        data == encode_utf8(plain) \o encode_ascii(salt)
    IN  StrJoin(<<":">>, <<(<<"sha1">>), salt, hexdigest(data)>>)

\* code points of the plaintexts: ':', 'a', U+00E9, U+3042, U+1F600
\* (Unicode scalar values: str.encode rejects a lone surrogate)
CodePoints == {58, 97, 233, 12354, 128512}

Plaintexts(n) == UNION {[1..k -> CodePoints] : k \in 0..n}

\* make_password called on its own
MakePassword ==
    /\ pc = "make_password"
    /\ \E bits \in RandBits : password' = make_password(plain_password, bits)
    /\ pc' = "made"
    /\ UNCHANGED <<plain_password, walkVars, mainVars>>

InitPw ==
    /\ IdleWalk(<<>>, <<>>)
    /\ entries = [p \in {<<>>} |-> [n \in MarkerNames |-> "absent"]]
    /\ plain_password \in Plaintexts(MaxPlainLen)
    /\ password = <<>>
    /\ IdleMain
    /\ pc = "make_password"

NextPw == MakePassword

SpecPw == InitPw /\ [][NextPw]_vars

(***************************************************************************)
(* main                                                                    *)
(***************************************************************************)
\* a str literal as a text
Str(lit) == IF lit = "" THEN <<>> ELSE <<lit>>

sys_executable == Str("python")

\* rest_of_args: the arguments argparse does not recognise
rest_of_args == <<Str("--no-browser")>>

\* lines 74-86: the namespace is the parsed command line, sys.argv is reset
ParseArgs ==
    /\ pc = "main"
    /\ args' = cmdline
    /\ sys_argv' = <<sys_executable>> \o rest_of_args
    /\ pc' = "find_project_root"
    /\ UNCHANGED <<walkVars, pwVars, cmdline, importable, env_data_dir, kernel_name,
                   kernel_path, kernels, rmtree_arg, wrote_spec, stderr, invoked,
                   handed, exit_code>>

\* lines 91-93: the data directory, from the environment or the default
JupyterDataDir(env, h) ==
    IF env = {} THEN h \o <<".local", "share", "jupyter">>
    ELSE CHOOSE x \in env : TRUE

\* variant: the name of the parent of the project root
KernelName_parent(r) ==
    IF r = {} THEN "default" ELSE Name(Parent(CHOOSE x \in r : TRUE))

\* line 99: 'default' if root is None else root.name
KernelName(r) == IF r = {} THEN "default" ELSE Name(CHOOSE x \in r : TRUE)

\* line 100: Path(jupyter_data_dir) / 'kernels' / kernel_name
KernelPath(data_dir, name) == Join(Join(data_dir, "kernels"), name)

\* lines 91-101
KernelSpecDir ==
    /\ pc = "returned"
    /\ kernel_name' = KernelName(root)
    /\ kernel_path' = {KernelPath(JupyterDataDir(env_data_dir, home), KernelName(root))}
    /\ env_data_dir' = {JupyterDataDir(env_data_dir, home)}
    /\ pc' = "reinstall"
    /\ UNCHANGED <<walkVars, pwVars, cmdline, args, importable, kernels, rmtree_arg,
                   wrote_spec, sys_argv, stderr, invoked, handed, exit_code>>

\* the kernel directories that lie at or below path; kernels_dir is the
\* directory <data dir>/kernels that holds them
Below(path, kernels_dir, fs) ==
    {n \in DOMAIN fs : IsRelativeTo(Join(kernels_dir, n), path)}

\* shutil.rmtree(path): the exception it raises, "none" when it succeeds
RmtreeError(path, kernels_dir, fs) ==
    IF \A n \in Below(path, kernels_dir, fs) : fs[n] = "absent"
    THEN "FileNotFoundError" ELSE "none"

\* shutil.rmtree(path): the kernel directories afterwards
Rmtree(path, kernels_dir, fs) ==
    [n \in DOMAIN fs |-> IF n \in Below(path, kernels_dir, fs) THEN "absent" ELSE fs[n]]

\* variant: the exception is not suppressed
Suppressed_none(exc) == FALSE

\* line 114: contextlib.suppress(FileNotFoundError)
Suppressed(exc) == exc = "FileNotFoundError"

\* ipykernel.kernelspec.write_kernel_spec(path=...)
WriteKernelSpec(path, kernels_dir, fs) ==
    [n \in DOMAIN fs |-> IF Join(kernels_dir, n) = path THEN "new" ELSE fs[n]]

\* lines 107-125
ReinstallKernel ==
    /\ pc = "reinstall"
    /\ IF ~importable.ipykernel
       THEN /\ stderr' = Append(stderr, "ipykernel is not installed")
            /\ pc' = "bind"
            /\ UNCHANGED <<kernels, rmtree_arg, wrote_spec>>
       ELSE LET path == CHOOSE x \in kernel_path : TRUE
                kdir == Join(CHOOSE x \in env_data_dir : TRUE, "kernels")
                exc  == RmtreeError(path, kdir, kernels)
            IN  /\ rmtree_arg' = {path}
                /\ IF exc # "none" /\ ~Suppressed(exc)
                   THEN /\ pc' = exc
                        /\ UNCHANGED <<kernels, wrote_spec, stderr>>
                   ELSE /\ kernels' = WriteKernelSpec(path, kdir,
                                          IF exc = "none" THEN Rmtree(path, kdir, kernels)
                                          ELSE kernels)
                        /\ wrote_spec' = {path}
                        /\ pc' = "bind"
                        /\ UNCHANGED stderr
    /\ UNCHANGED <<walkVars, pwVars, cmdline, args, importable, env_data_dir, kernel_name,
                   kernel_path, sys_argv, invoked, handed, exit_code>>

\* variant: no default bind address
BindArgs_nodefault(a) ==
    IF a.ip # {} THEN <<Str("--NotebookApp.ip"), CHOOSE x \in a.ip : TRUE>> ELSE <<>>

\* lines 127-131: the bind address, 127.0.0.1 unless --ip is given
BindArgs(a) ==
    IF a.ip # {} THEN <<Str("--NotebookApp.ip"), CHOOSE x \in a.ip : TRUE>>
    ELSE <<Str("--NotebookApp.ip"), Str("127.0.0.1")>>

BindAddress ==
    /\ pc = "bind"
    /\ sys_argv' = sys_argv \o BindArgs(args)
    /\ pc' = "check_lab"
    /\ UNCHANGED <<walkVars, pwVars, cmdline, args, importable, env_data_dir, kernel_name,
                   kernel_path, kernels, rmtree_arg, wrote_spec, stderr, invoked,
                   handed, exit_code>>

\* variant: no fall back to notebook mode
LabFallback_none(a, imp) == a

\* lines 134-139: notebook mode is forced when jupyterlab cannot be imported
LabFallback(a, imp) ==
    IF ~a.notebook /\ ~imp.jupyterlab THEN [a EXCEPT !.notebook = TRUE] ELSE a

CheckLab ==
    /\ pc = "check_lab"
    /\ args' = LabFallback(args, importable)
    /\ pc' = "only_update"
    /\ UNCHANGED <<walkVars, pwVars, cmdline, importable, env_data_dir, kernel_name,
                   kernel_path, kernels, rmtree_arg, wrote_spec, sys_argv, stderr,
                   invoked, handed, exit_code>>

\* lines 141-142
OnlyUpdateKernel ==
    /\ pc = "only_update"
    /\ args.only_update_kernel
    /\ pc' = "done"
    /\ exit_code' = 0
    /\ UNCHANGED <<walkVars, pwVars, cmdline, args, importable, env_data_dir, kernel_name,
                   kernel_path, kernels, rmtree_arg, wrote_spec, sys_argv, stderr,
                   invoked, handed>>

\* lines 144-146: lab mode turns --no-password into an empty password
BlankPassword(a) ==
    IF ~a.notebook /\ a.no_password THEN [a EXCEPT !.password = {<<>>}] ELSE a

\* lines 153-155
NoPasswordArgs(a) ==
    IF a.no_password
    THEN <<Str("--NotebookApp.token"), Str(""),
           Str("--NotebookApp.password_required"), Str("False")>>
    ELSE <<>>

\* values of random.getrandbits drawn in a run of main
MainRandBits == {<<0, 10>>, <<Limb - 1, Limb - 1>>}

\* lines 144-155
PasswordArgs ==
    /\ pc = "only_update"
    /\ ~args.only_update_kernel
    /\ args' = BlankPassword(args)
    /\ \E bits \in MainRandBits :
          sys_argv' = sys_argv
              \o <<Str("--NotebookApp.password"),
                    IF args'.password # {}
                    THEN make_password(CHOOSE x \in args'.password : TRUE, bits)
                    ELSE Str("")>>
              \o NoPasswordArgs(args')
    /\ pc' = "dispatch"
    /\ UNCHANGED <<walkVars, pwVars, cmdline, importable, env_data_dir, kernel_name,
                   kernel_path, kernels, rmtree_arg, wrote_spec, stderr, invoked,
                   handed, exit_code>>

\* lines 157-168
Dispatch ==
    /\ pc = "dispatch"
    /\ IF args.notebook
       THEN IF ~importable.jupyter_core
            THEN /\ stderr' = Append(stderr, "Please install notebook or jupyterlab")
                 /\ exit_code' = 1
                 /\ UNCHANGED <<sys_argv, invoked, handed>>
            ELSE /\ sys_argv' = <<sys_executable, Str("notebook")>> \o Tail(sys_argv)
                 /\ invoked' = "notebook"
                 /\ handed' = sys_argv'
                 /\ exit_code' = 0
                 /\ UNCHANGED stderr
       ELSE /\ sys_argv' = sys_argv \o <<Str("--MultiKernelManager.default_kernel_name"),
                                         Str(kernel_name)>>
            /\ invoked' = "lab"
            /\ handed' = Tail(sys_argv')
            /\ exit_code' = 0
            /\ UNCHANGED stderr
    /\ pc' = "done"
    /\ UNCHANGED <<walkVars, pwVars, cmdline, args, importable, env_data_dir, kernel_name,
                   kernel_path, kernels, rmtree_arg, wrote_spec>>

(***************************************************************************)
(* Runs of main                                                            *)
(***************************************************************************)
Cmdlines ==
    [ip : {{}, {Str("0.0.0.0")}}, only_update_kernel : BOOLEAN,
     no_password : BOOLEAN, notebook : BOOLEAN,
     password : {{}, {<<>>}, {<<97>>}}]

Importables == [ipykernel : BOOLEAN, jupyterlab : BOOLEAN, jupyter_core : BOOLEAN]

KernelNames == Names \cup {"default"}

\* the two scenarios of the specification, with home = /h and the current
\* directory /h/p/h: a project /h/p marked by a .git directory, and no
\* marker at all
ScenarioStart == <<"h", "p", "h">>

ScenarioTrees ==
    {[p \in Chain(ScenarioStart) |->
        [n \in MarkerNames |->
            IF p = <<"h", "p">> /\ n = ".git" THEN k ELSE "absent"]] :
     k \in {"dir", "absent"}}

InitMainState ==
    /\ find_root = <<>>
    /\ d = start
    /\ frames = 0
    /\ visited = {}
    /\ listed = {}
    /\ root = {}
    /\ IdlePw
    /\ args = NoArgs
    /\ env_data_dir \in {{}, {<<"data">>}}
    /\ kernels \in {[n \in KernelNames |-> k] : k \in {"absent", "old"}}
    /\ kernel_name = ""
    /\ kernel_path = {}
    /\ rmtree_arg = {}
    /\ wrote_spec = {}
    /\ sys_argv = <<>>
    /\ stderr = <<>>
    /\ invoked = "none"
    /\ handed = <<>>
    /\ exit_code = -1
    /\ pc = "main"

\* every command line and every set of importable packages in the scenario
\* trees; every small tree with the default command line
Init ==
    /\ \/ /\ start = ScenarioStart
          /\ home = <<"h">>
          /\ entries \in ScenarioTrees
          /\ cmdline \in Cmdlines
          /\ importable \in Importables
       \/ /\ start \in PathsUpTo(MainMaxDepth)
          /\ home \in PathsUpTo(MaxHomeDepth)
          /\ entries \in Trees(start, MainMaxMarkers)
          /\ cmdline = NoArgs
          /\ importable \in [ipykernel : BOOLEAN, jupyterlab : {TRUE},
                              jupyter_core : {TRUE}]
    /\ InitMainState

Next ==
    \/ ParseArgs
    \/ FindProjectRoot
    \/ find_project_root_recurse
    \/ KernelSpecDir
    \/ ReinstallKernel
    \/ BindAddress
    \/ CheckLab
    \/ OnlyUpdateKernel
    \/ PasswordArgs
    \/ Dispatch

Spec == Init /\ [][Next]_vars

(***************************************************************************)
(* Properties                                                              *)
(***************************************************************************)
\* q is p or an ancestor of p
UnderOrAt(p, q) == \E k \in 0..Len(p) : SubSeq(p, 1, k) = q

StrictlyUnder(p, q) == UnderOrAt(p, q) /\ p # q

\* the search boundary as the specification words it
Boundary == IF UnderOrAt(start, home) THEN home ELSE <<>>

\* the directory holds an entry that is a marker of the right type
HasValidMarker(dir) ==
    entries[dir][".git"] = "dir" \/ entries[dir]["pyproject.toml"] = "file"

\* the directory holds marker-named entries, all of the wrong type
OnlyWrongType(dir) ==
    /\ ~HasValidMarker(dir)
    /\ entries[dir][".git"] = "file" \/ entries[dir]["pyproject.toml"] = "dir"

\* g holds a .git directory, the start is g or below it, and no directory
\* from the start up to g (g excluded) holds a valid marker
NearestGit(g) ==
    /\ g \in Chain(start)
    /\ entries[g][".git"] = "dir"
    /\ \A n \in Chain(start) : StrictlyUnder(n, g) => ~HasValidMarker(n)

\* C1 as stated: whenever the start is at or below a directory g that holds a
\* .git directory and no nearer directory holds a valid marker,
\* find_project_root returns g.
C1_AsStated ==
    pc = "returned" => \A g \in Chain(start) : NearestGit(g) => root = {g}

\* C1 amended: the same, for every such g that lies strictly below the
\* search boundary.
C1_NearestGitBelowBoundary ==
    pc = "returned" =>
        \A g \in Chain(start) :
            NearestGit(g) /\ StrictlyUnder(g, Boundary) => root = {g}

C1_Witness ==
    /\ pc = "returned"
    /\ \E g \in Chain(start) :
          /\ NearestGit(g) /\ StrictlyUnder(g, Boundary)
          /\ StrictlyUnder(start, g)
          /\ root = {g}

\* C2: a pyproject.toml that is a directory and a .git that is a file never
\* yield a result: every directory returned holds a marker of the right
\* type, and a listed directory whose marker-named entries all have the
\* wrong type is not returned and the walk goes on with its parent.
C2_WrongTypeNeverMatches ==
    /\ pc = "returned" => \A r \in root : HasValidMarker(r)
    /\ \A x \in listed :
          OnlyWrongType(x) => (x \notin root /\ Parent(x) \in visited)

C2_Witness ==
    /\ pc = "returned"
    /\ \E x \in listed :
          /\ OnlyWrongType(x)
          /\ entries[x][".git"] = "file"
          /\ root = {Parent(x)}

\* C3: every directory the walk visits and any directory it returns lies at
\* or under the search boundary, and the search never ends with an error.
C3_StaysUnderBoundary ==
    /\ \A v \in visited \cup root : UnderOrAt(v, Boundary)
    /\ pc # "ValueError"

C3_Witness ==
    /\ pc = "returned"
    /\ ~UnderOrAt(start, home)
    /\ frames > 1
    /\ d = <<>>
    /\ root = {}

\* the fields of a text between its ":" chunks
RECURSIVE Fields(_)
Fields(t) ==
    IF \A i \in 1..Len(t) : t[i] # ":" THEN <<t>>
    ELSE LET i == CHOOSE k \in 1..Len(t) :
                      t[k] = ":" /\ \A j \in 1..(k - 1) : t[j] # ":"
         IN  <<SubSeq(t, 1, i - 1)>> \o Fields(SubSeq(t, i + 1, Len(t)))

LowerHexChars == {HexDigits[i] : i \in 1..16}

\* the three-field format of an encoded password for plaintext plain
IsEncodedPassword(t, plain) ==
    LET f == Fields(t)
    IN  /\ Len(f) = 3
        /\ f[1] = <<"sha1">>
        /\ Len(f[2]) = 12
        /\ \A i \in 1..Len(f[2]) : f[2][i] \in LowerHexChars
        /\ f[3] = hexdigest(encode_utf8(plain) \o encode_ascii(f[2]))

\* C7: make_password returns three colon-separated fields: "sha1", a salt of
\* exactly 12 lowercase hex characters, and the hex digest of the UTF-8
\* plaintext followed by the ASCII salt.
C7_PasswordFormat ==
    pc = "made" => IsEncodedPassword(password, plain_password)

C7_Witness ==
    /\ pc = "made"
    /\ plain_password = <<>>
    /\ Fields(password)[2] = <<"0", "0", "0", "0", "0", "0", "0", "0", "0", "0", "0", "a">>

\* token tok occurs in the argument list
HasToken(argv, tok) == \E i \in 1..Len(argv) : argv[i] = tok

\* the values that follow the option opt in the argument list
ValuesOf(argv, opt) == {argv[i + 1] : i \in {j \in 1..(Len(argv) - 1) : argv[j] = opt}}

\* C4 as stated: with --no-password in lab mode the arguments handed to the
\* lab entry point carry --NotebookApp.password with the encoded empty
\* password, no empty password value and no --NotebookApp.password_required.
C4_AsStated ==
    pc = "done" /\ invoked = "lab" /\ cmdline.no_password =>
        /\ \E v \in ValuesOf(handed, Str("--NotebookApp.password")) :
              IsEncodedPassword(v, <<>>)
        /\ Str("") \notin ValuesOf(handed, Str("--NotebookApp.password"))
        /\ ~HasToken(handed, Str("--NotebookApp.password_required"))

\* C5 as stated: a run that does not stop at --only-update-kernel exits
\* with 1 exactly when neither server can be imported, and invokes a server
\* whenever one of them can.
C5_AsStated ==
    pc = "done" /\ ~cmdline.only_update_kernel =>
        /\ exit_code = 1 <=> (~importable.jupyterlab /\ ~importable.jupyter_core)
        /\ importable.jupyterlab \/ importable.jupyter_core =>
              invoked # "none" /\ exit_code # 1

\* notebook mode is the mode of the run: --notebook, or no importable lab
NotebookModeSelected == cmdline.notebook \/ ~importable.jupyterlab

\* C5 amended: a run that does not stop at --only-update-kernel exits with 1
\* exactly when notebook mode is selected (--notebook given, or the lab
\* server not importable) and the notebook-mode server is not importable;
\* in every other case the selected server is invoked and the exit code is
\* not 1.
C5_ExitOneIffSelectedServerMissing ==
    pc = "done" /\ ~cmdline.only_update_kernel =>
        /\ exit_code = 1 <=> (NotebookModeSelected /\ ~importable.jupyter_core)
        /\ exit_code = 1 => invoked = "none"
        /\ exit_code # 1 =>
              invoked = IF NotebookModeSelected THEN "notebook" ELSE "lab"

C5_Witness ==
    /\ pc = "done"
    /\ cmdline.notebook /\ ~cmdline.only_update_kernel
    /\ importable.jupyterlab /\ ~importable.jupyter_core
    /\ exit_code = 1
    /\ invoked = "none"

PasswordOptions ==
    {Str("--NotebookApp.password"), Str("--NotebookApp.token"),
     Str("--NotebookApp.password_required")}

\* C6 as stated: with --only-update-kernel main returns with no bind-address
\* argument and no password argument appended, and no server invoked.
C6_AsStated ==
    pc = "done" /\ cmdline.only_update_kernel =>
        /\ ~HasToken(sys_argv, Str("--NotebookApp.ip"))
        /\ \A o \in PasswordOptions : ~HasToken(sys_argv, o)
        /\ invoked = "none"

\* C6 amended: with --only-update-kernel no password argument is ever
\* appended and no server entry point is ever invoked, and main returns
\* (exit code 0) with the bind-address argument already appended: the
\* argument list is the interpreter, the unrecognised arguments, then
\* --NotebookApp.ip and the given address or 127.0.0.1.
C6_OnlyUpdateReturnsAfterBind ==
    cmdline.only_update_kernel =>
        /\ invoked = "none"
        /\ \A o \in PasswordOptions : ~HasToken(sys_argv, o)
        /\ pc \notin {"dispatch"}
        /\ pc = "done" =>
              /\ exit_code = 0
              /\ sys_argv = <<sys_executable>> \o rest_of_args
                    \o <<Str("--NotebookApp.ip"),
                          IF cmdline.ip = {} THEN Str("127.0.0.1")
                          ELSE CHOOSE x \in cmdline.ip : TRUE>>

C6_Witness ==
    /\ pc = "done"
    /\ cmdline.only_update_kernel
    /\ cmdline.ip = {}
    /\ cmdline.no_password
    /\ ValuesOf(sys_argv, Str("--NotebookApp.ip")) = {Str("127.0.0.1")}

BeforeBind == {"main", "find_project_root", "recurse", "returned", "reinstall"}

\* C8: without ipykernel main warns and goes on: rmtree and
\* write_kernel_spec are never called and no kernel directory is rewritten,
\* and a run whose selected server is importable (and that is not
\* --only-update-kernel) ends with that server invoked on the assembled
\* arguments.  With ipykernel, the run gets past the reinstall step whether
\* or not the kernel directory exists, and the spec is written at
\* kernel_path.
C8_KernelReinstallOptional ==
    /\ pc # "FileNotFoundError"
    /\ ~importable.ipykernel =>
          /\ rmtree_arg = {} /\ wrote_spec = {}
          /\ \A n \in DOMAIN kernels : kernels[n] # "new"
          /\ pc \notin BeforeBind => stderr # <<>> /\ stderr[1] = "ipykernel is not installed"
          /\ pc = "done" /\ ~cmdline.only_update_kernel /\ exit_code # 1 =>
                /\ invoked # "none"
                /\ HasToken(handed, Str("--NotebookApp.ip"))
                /\ HasToken(handed, Str("--NotebookApp.password"))
    /\ importable.ipykernel /\ pc \notin BeforeBind =>
          /\ wrote_spec = kernel_path
          /\ kernels[kernel_name] = "new"
          /\ \A i \in 1..Len(stderr) : stderr[i] # "ipykernel is not installed"

C8_Witness ==
    /\ pc = "done"
    /\ importable.ipykernel
    /\ rmtree_arg = kernel_path
    /\ \A n \in DOMAIN kernels : n # kernel_name => kernels[n] = "absent"
    /\ kernels[kernel_name] = "new"
    /\ invoked = "lab"

\* no directory from the start up to the boundary, the boundary excluded,
\* holds a valid marker
NoMarkerBelowBoundary ==
    \A x \in Chain(start) : StrictlyUnder(x, Boundary) => ~HasValidMarker(x)

\* C9: if no directory from the start up to the boundary (the boundary
\* excluded) holds a valid marker, find_project_root returns None and the
\* kernel name is "default"; otherwise a root is returned and the kernel
\* name is its final path component.
C9_KernelNameFromRoot ==
    kernel_path # {} =>
        IF NoMarkerBelowBoundary
        THEN root = {} /\ kernel_name = "default"
        ELSE /\ root # {}
             /\ \A r \in root : r # <<>> /\ kernel_name = r[Len(r)]

C9_Witness ==
    /\ kernel_path # {}
    /\ start = Boundary
    /\ HasValidMarker(start)
    /\ root = {}
    /\ kernel_name = "default"

\* <data dir>/kernels
KernelsDir == Append(JupyterDataDir(env_data_dir, home), "kernels")

\* C10: the kernel name is one non-empty path component, the kernel path
\* and the directory handed to rmtree are direct children of
\* <data dir>/kernels, and find_project_root returns neither "/" nor the
\* boundary.
C10_KernelPathIsChildOfKernels ==
    /\ kernel_path # {} => kernel_name \in KernelNames
    /\ \A q \in kernel_path \cup rmtree_arg :
          Len(q) = Len(KernelsDir) + 1 /\ SubSeq(q, 1, Len(KernelsDir)) = KernelsDir
    /\ pc \notin {"main", "find_project_root", "recurse"} =>
          <<>> \notin root /\ Boundary \notin root

C10_Witness ==
    /\ pc = "done"
    /\ start # <<>>
    /\ HasValidMarker(<<>>)
    /\ kernel_name = "default"
    /\ rmtree_arg # {}
    /\ \A n \in DOMAIN kernels : n # kernel_name => kernels[n] = "old"

====
